---------------------------- MODULE Spec2Model ----------------------------
(***************************************************************************)
(* A model of the tape-machine interpreter of src/src/main.rs: the Memory  *)
(* tape, the InnerState execution engine with its lazy bracket scans, and  *)
(* the load / run loop of main.                                            *)
(*                                                                         *)
(* A character is modelled by a one-character string, except the two-byte  *)
(* character U+00E9, written "U+00E9".  A byte is a number in 0..255.      *)
(***************************************************************************)
EXTENDS Integers, Sequences, FiniteSets, TLC

VARIABLES
    contents,   \* main: the text read from the file, a sequence of characters
    parsed,     \* main: the vector `parsed` of text segments
    state,      \* main: the InnerState `state`
    stdout,     \* the bytes printed so far
    status,     \* "start", "running", "halted", "exit1" or "panicked"
    panic,      \* the panic that ended the run: [msg, line], msg = "" for none
    jumps       \* number of backward jumps taken, bounded by MaxJumps

vars == <<contents, parsed, state, stdout, status, panic, jumps>>

(***************************************************************************)
(* Bounds of the model.                                                    *)
(***************************************************************************)
\* longest program drawn from the full instruction alphabet
MaxLen == 3
\* longest input text, in characters
MaxInput == 1
\* number of backward jumps a run may take
MaxJumps == 3

(***************************************************************************)
(* Program constants.                                                      *)
(***************************************************************************)
CELL_SIZE_LIMIT == 255
ARRAY_SIZE_LIMIT == 30000

(***************************************************************************)
(* Characters, code points and UTF-8.                                      *)
(***************************************************************************)
NL == "\n"
E_ACUTE == "U+00E9"

\* the Unicode scalar value of a character of the model's alphabet
CodePoint(c) ==
    CASE c = "+" -> 43
      [] c = "-" -> 45
      [] c = ">" -> 62
      [] c = "<" -> 60
      [] c = "." -> 46
      [] c = "," -> 44
      [] c = "[" -> 91
      [] c = "]" -> 93
      [] c = "!" -> 33
      [] c = " " -> 32
      [] c = NL -> 10
      [] c = "A" -> 65
      [] c = "c" -> 99
      [] c = E_ACUTE -> 233

\* the UTF-8 encoding of a scalar value below 2^16, as Rust strings store it
\* and as `print!("{}", ch)` writes it
Utf8(cp) ==
    IF cp < 128 THEN <<cp>>
    ELSE IF cp < 2048 THEN <<192 + (cp \div 64), 128 + (cp % 64)>>
    ELSE <<224 + (cp \div 4096), 128 + ((cp \div 64) % 64), 128 + (cp % 64)>>

RECURSIVE as_bytes(_)
\* str::as_bytes: the bytes of a text, the encodings of its characters in
\* order (computed by halves)
as_bytes(s) ==
    IF Len(s) = 0 THEN <<>>
    ELSE IF Len(s) = 1 THEN Utf8(CodePoint(s[1]))
    ELSE as_bytes(SubSeq(s, 1, Len(s) \div 2))
             \o as_bytes(SubSeq(s, (Len(s) \div 2) + 1, Len(s)))

\* str::len: the length of a text in bytes
str_len(s) == Len(as_bytes(s))

\* char::is_whitespace, on the model's alphabet
is_whitespace(c) == c \in {" ", NL}

RECURSIVE trim_start(_)
trim_start(s) ==
    IF s # <<>> /\ is_whitespace(Head(s)) THEN trim_start(Tail(s)) ELSE s

RECURSIVE trim_end(_)
trim_end(s) ==
    IF s # <<>> /\ is_whitespace(s[Len(s)])
    THEN trim_end(SubSeq(s, 1, Len(s) - 1))
    ELSE s

\* str::trim
trim(s) == trim_end(trim_start(s))

\* the position of the k-th occurrence of sep in s; 0 for k = 0 and
\* Len(s) + 1 when there are fewer than k
sep_position(s, sep, k) ==
    LET at == {i \in 1..Len(s) : s[i] = sep} IN
    IF k = 0 THEN 0
    ELSE IF k > Cardinality(at) THEN Len(s) + 1
    ELSE CHOOSE i \in at : Cardinality({j \in at : j < i}) = k - 1

\* str::split(sep).collect(): the segments between the occurrences of sep
split(s, sep) ==
    LET n == Cardinality({i \in 1..Len(s) : s[i] = sep}) IN
    [k \in 1..(n + 1) |->
        SubSeq(s, sep_position(s, sep, k - 1) + 1, sep_position(s, sep, k) - 1)]

\* "Please use only one `!` in the input file!" and a newline
ONLY_ONE_MSG ==
    <<80, 108, 101, 97, 115, 101, 32, 117, 115, 101, 32, 111, 110, 108, 121,
      32, 111, 110, 101, 32, 96, 33, 96, 32, 105, 110, 32, 116, 104, 101, 32,
      105, 110, 112, 117, 116, 32, 102, 105, 108, 101, 33, 10>>

(***************************************************************************)
(* Memory.  The array of ARRAY_SIZE_LIMIT cells is represented by the      *)
(* function from the indices of its nonzero cells to their values; every   *)
(* other cell holds 0.                                                     *)
(***************************************************************************)
\* bytearray[i]
cell_at(bytearray, i) == IF i \in DOMAIN bytearray THEN bytearray[i] ELSE 0

\* bytearray[i] = v
cell_set(bytearray, i, v) ==
    IF v = 0
    THEN [j \in DOMAIN bytearray \ {i} |-> bytearray[j]]
    ELSE [j \in DOMAIN bytearray \cup {i} |-> IF j = i THEN v ELSE bytearray[j]]

Memory_new == [bytearray |-> [j \in {} |-> 0], idx |-> 0]

\* keep_range with `>` for `>=`
keep_range_off_by_one(m) ==
    IF m.idx > ARRAY_SIZE_LIMIT THEN [m EXCEPT !.idx = 0] ELSE m

keep_range(m) ==
    IF m.idx >= ARRAY_SIZE_LIMIT THEN [m EXCEPT !.idx = 0] ELSE m

\* move_left that stays at cell 0 instead of wrapping
move_left_saturating(m) ==
    keep_range(IF m.idx = 0 THEN m ELSE [m EXCEPT !.idx = m.idx - 1])

move_left(m) ==
    keep_range(IF m.idx = 0
               THEN [m EXCEPT !.idx = ARRAY_SIZE_LIMIT - 1]
               ELSE [m EXCEPT !.idx = m.idx - 1])

move_right(m) == keep_range([m EXCEPT !.idx = m.idx + 1])

accept_in(m, chr) == [m EXCEPT !.bytearray = cell_set(m.bytearray, m.idx, chr)]

give_out(m) == cell_at(m.bytearray, m.idx)

\* increment without the wrap: CELL_SIZE_LIMIT goes to CELL_SIZE_LIMIT + 1
increment_unbounded(m) ==
    [m EXCEPT !.bytearray =
         cell_set(m.bytearray, m.idx, cell_at(m.bytearray, m.idx) + 1)]

\* increment that wraps by a modulus of CELL_SIZE_LIMIT: 254 goes to 0
increment_modulus(m) ==
    [m EXCEPT !.bytearray =
         cell_set(m.bytearray, m.idx,
                  (cell_at(m.bytearray, m.idx) + 1) % CELL_SIZE_LIMIT)]

increment(m) ==
    IF cell_at(m.bytearray, m.idx) >= CELL_SIZE_LIMIT
    THEN [m EXCEPT !.bytearray = cell_set(m.bytearray, m.idx, 0)]
    ELSE [m EXCEPT !.bytearray =
              cell_set(m.bytearray, m.idx, cell_at(m.bytearray, m.idx) + 1)]

\* decrement that wraps 0 to CELL_SIZE_LIMIT - 1
decrement_wraps_short(m) ==
    IF cell_at(m.bytearray, m.idx) = 0
    THEN [m EXCEPT !.bytearray =
              cell_set(m.bytearray, m.idx, CELL_SIZE_LIMIT - 1)]
    ELSE [m EXCEPT !.bytearray =
              cell_set(m.bytearray, m.idx, cell_at(m.bytearray, m.idx) - 1)]

\* decrement that stays at 0
decrement_saturating(m) ==
    IF cell_at(m.bytearray, m.idx) = 0
    THEN m
    ELSE [m EXCEPT !.bytearray =
              cell_set(m.bytearray, m.idx, cell_at(m.bytearray, m.idx) - 1)]

decrement(m) ==
    IF cell_at(m.bytearray, m.idx) = 0
    THEN [m EXCEPT !.bytearray = cell_set(m.bytearray, m.idx, CELL_SIZE_LIMIT)]
    ELSE [m EXCEPT !.bytearray =
              cell_set(m.bytearray, m.idx, cell_at(m.bytearray, m.idx) - 1)]

get_value(m) == cell_at(m.bytearray, m.idx)

(***************************************************************************)
(* Operations and InnerState.                                              *)
(***************************************************************************)
\* the closure of InnerState::new: one operation per character
decode(c) ==
    CASE c = "+" -> "Add"
      [] c = "-" -> "Subtract"
      [] c = ">" -> "MoveRight"
      [] c = "<" -> "MoveLeft"
      [] c = "." -> "Output"
      [] c = "," -> "Input"
      [] c = "[" -> "BracketLeft"
      [] c = "]" -> "BracketRight"
      [] OTHER -> "Comment"

InnerState_new(ops, input_str) ==
    [operations |-> [i \in 1..Len(ops) |-> decode(ops[i])],
     idx        |-> 0,
     memory     |-> Memory_new,
     input_str  |-> as_bytes(input_str),
     input_idx  |-> 0]

\* the result of a call that returns val
Returned(val) == [msg |-> "", line |-> 0, val |-> val]
\* the result of a call that panics at a source line
Panicked(msg, line) == [msg |-> msg, line |-> line, val |-> 0]

INDEX_OOB == "index out of bounds"
SUB_OVERFLOW == "attempt to subtract with overflow"
NoPanic == [msg |-> "", line |-> 0]

RECURSIVE next_rbrack_first(_, _, _)
\* a forward scan that stops at the first BracketRight, nested or not
next_rbrack_first(operations, idx2, othercount) ==
    IF idx2 >= Len(operations) THEN Panicked(INDEX_OOB, 134)
    ELSE IF operations[idx2 + 1] = "BracketRight" THEN Returned(idx2)
    ELSE next_rbrack_first(operations, idx2 + 1, othercount)

RECURSIVE next_rbrack_loop(_, _, _)
\* the loop of get_next_rbrack; operations[idx2] is checked against the
\* length of the vector
next_rbrack_loop(operations, idx2, othercount) ==
    IF idx2 >= Len(operations) THEN Panicked(INDEX_OOB, 134)
    ELSE IF operations[idx2 + 1] = "BracketRight"
         THEN IF othercount = 0
              THEN Returned(idx2)
              ELSE next_rbrack_loop(operations, idx2 + 1, othercount - 1)
    ELSE IF operations[idx2 + 1] = "BracketLeft"
         THEN next_rbrack_loop(operations, idx2 + 1, othercount + 1)
    ELSE next_rbrack_loop(operations, idx2 + 1, othercount)

get_next_rbrack(self) == next_rbrack_loop(self.operations, self.idx + 1, 0)

RECURSIVE prev_lbrack_first(_, _, _, _)
\* a backward scan that stops at the first BracketLeft, nested or not
prev_lbrack_first(operations, idx2, othercount, overflow_checks) ==
    IF idx2 >= Len(operations) THEN Panicked(INDEX_OOB, 157)
    ELSE IF operations[idx2 + 1] = "BracketLeft" THEN Returned(idx2)
    ELSE IF idx2 = 0
         THEN IF overflow_checks
              THEN Panicked(SUB_OVERFLOW, 170)
              ELSE Panicked(INDEX_OOB, 157)
    ELSE prev_lbrack_first(operations, idx2 - 1, othercount, overflow_checks)

RECURSIVE prev_lbrack_loop(_, _, _, _)
\* the loop of get_prev_lbrack.  `idx2 -= 1` at idx2 = 0 panics in a build
\* with overflow checks; without them idx2 wraps to usize::MAX, which is not
\* below the length of any vector, so the read of operations[idx2] panics.
prev_lbrack_loop(operations, idx2, othercount, overflow_checks) ==
    IF idx2 >= Len(operations) THEN Panicked(INDEX_OOB, 157)
    ELSE IF operations[idx2 + 1] = "BracketLeft" /\ othercount = 0
         THEN Returned(idx2)
    ELSE IF idx2 = 0
         THEN IF overflow_checks
              THEN Panicked(SUB_OVERFLOW, 170)
              ELSE Panicked(INDEX_OOB, 157)
    ELSE IF operations[idx2 + 1] = "BracketLeft"
         THEN prev_lbrack_loop(operations, idx2 - 1, othercount - 1,
                               overflow_checks)
    ELSE IF operations[idx2 + 1] = "BracketRight"
         THEN prev_lbrack_loop(operations, idx2 - 1, othercount + 1,
                               overflow_checks)
    ELSE prev_lbrack_loop(operations, idx2 - 1, othercount, overflow_checks)

\* `self.idx - 1` at self.idx = 0 overflows like `idx2 -= 1`
get_prev_lbrack(self, overflow_checks) ==
    IF self.idx = 0
    THEN IF overflow_checks
         THEN Panicked(SUB_OVERFLOW, 154)
         ELSE Panicked(INDEX_OOB, 157)
    ELSE prev_lbrack_loop(self.operations, self.idx - 1, 0, overflow_checks)

\* the byte the Input operation hands to accept_in
next_input(self) ==
    IF self.input_idx >= Len(self.input_str)
    THEN 0
    ELSE self.input_str[self.input_idx + 1]

\* Operations::Input that leaves the cursor alone once the input is exhausted
execute_input_cursor_stops(self) ==
    [self EXCEPT !.memory = accept_in(self.memory, next_input(self)),
                 !.input_idx = IF self.input_idx >= Len(self.input_str)
                               THEN self.input_idx
                               ELSE self.input_idx + 1]

\* Operations::Input
execute_input(self) ==
    [self EXCEPT !.memory = accept_in(self.memory, next_input(self)),
                 !.input_idx = self.input_idx + 1]

\* what `print!("{}", v as u8 as char)` writes: the UTF-8 encoding of the
\* character whose scalar value is v truncated to 8 bits
print_cell(v) == Utf8(v % 256)

\* the outcome of one call of execute: the panic, if any, the new InnerState
\* and the bytes printed
Outcome(pnc, self, out) == [panic |-> pnc, self |-> self, out |-> out]
\* an advance of two: the instruction after the one executed is skipped
Advance_skips(self) == [self EXCEPT !.idx = self.idx + 2]
Advance(self) == [self EXCEPT !.idx = self.idx + 1]

\* BracketLeft that looks for its partner before it tests the cell
execute_bracket_left_eager(self) ==
    LET r == get_next_rbrack(self) IN
    IF r.msg # ""
    THEN Outcome([msg |-> r.msg, line |-> r.line], self, <<>>)
    ELSE IF get_value(self.memory) = 0
    THEN Outcome(NoPanic, Advance([self EXCEPT !.idx = r.val]), <<>>)
    ELSE Outcome(NoPanic, Advance(self), <<>>)

\* BracketLeft with the test inverted: skips the block on a nonzero cell
execute_bracket_left_inverted(self) ==
    IF get_value(self.memory) # 0
    THEN LET r == get_next_rbrack(self) IN
         IF r.msg # ""
         THEN Outcome([msg |-> r.msg, line |-> r.line], self, <<>>)
         ELSE Outcome(NoPanic, Advance([self EXCEPT !.idx = r.val]), <<>>)
    ELSE Outcome(NoPanic, Advance(self), <<>>)

execute_bracket_left(self) ==
    IF get_value(self.memory) = 0
    THEN LET r == get_next_rbrack(self) IN
         IF r.msg # ""
         THEN Outcome([msg |-> r.msg, line |-> r.line], self, <<>>)
         ELSE Outcome(NoPanic, Advance([self EXCEPT !.idx = r.val]), <<>>)
    ELSE Outcome(NoPanic, Advance(self), <<>>)

\* BracketRight with the test inverted: jumps back on a zero cell
execute_bracket_right_inverted(self, overflow_checks) ==
    IF get_value(self.memory) = 0
    THEN LET r == get_prev_lbrack(self, overflow_checks) IN
         IF r.msg # ""
         THEN Outcome([msg |-> r.msg, line |-> r.line], self, <<>>)
         ELSE Outcome(NoPanic, Advance([self EXCEPT !.idx = r.val]), <<>>)
    ELSE Outcome(NoPanic, Advance(self), <<>>)

execute_bracket_right(self, overflow_checks) ==
    IF get_value(self.memory) # 0
    THEN LET r == get_prev_lbrack(self, overflow_checks) IN
         IF r.msg # ""
         THEN Outcome([msg |-> r.msg, line |-> r.line], self, <<>>)
         ELSE Outcome(NoPanic, Advance([self EXCEPT !.idx = r.val]), <<>>)
    ELSE Outcome(NoPanic, Advance(self), <<>>)

execute(self, overflow_checks) ==
    IF self.idx >= Len(self.operations)
    THEN Outcome([msg |-> INDEX_OOB, line |-> 178], self, <<>>)
    ELSE LET oper == self.operations[self.idx + 1] IN
         CASE oper = "Add" ->
                Outcome(NoPanic,
                        Advance([self EXCEPT !.memory = increment(self.memory)]),
                        <<>>)
           [] oper = "Subtract" ->
                Outcome(NoPanic,
                        Advance([self EXCEPT !.memory = decrement(self.memory)]),
                        <<>>)
           [] oper = "MoveLeft" ->
                Outcome(NoPanic,
                        Advance([self EXCEPT !.memory = move_left(self.memory)]),
                        <<>>)
           [] oper = "MoveRight" ->
                Outcome(NoPanic,
                        Advance([self EXCEPT !.memory = move_right(self.memory)]),
                        <<>>)
           [] oper = "Input" ->
                Outcome(NoPanic, Advance(execute_input(self)), <<>>)
           [] oper = "Output" ->
                Outcome(NoPanic, Advance(self),
                        print_cell(give_out(self.memory)))
           [] oper = "BracketLeft" -> execute_bracket_left(self)
           [] oper = "BracketRight" ->
                execute_bracket_right(self, overflow_checks)
           [] oper = "Comment" -> Outcome(NoPanic, Advance(self), <<>>)

(***************************************************************************)
(* The engine with a precomputed jump table that the design allows as an   *)
(* optimisation: the table maps the index of each bracket to the index of  *)
(* its partner and is built in one pass with a stack of the open           *)
(* LoopStarts; a taken jump reads the table instead of scanning.           *)
(***************************************************************************)
RECURSIVE build_jump_table(_, _, _, _)
\* the pass from index k on, stack holding the indices of the open
\* LoopStarts, innermost first
build_jump_table(operations, k, stack, table) ==
    IF k >= Len(operations) THEN table
    ELSE IF operations[k + 1] = "BracketLeft"
         THEN build_jump_table(operations, k + 1, <<k>> \o stack, table)
    ELSE IF operations[k + 1] = "BracketRight" /\ stack # <<>>
         THEN build_jump_table(operations, k + 1, Tail(stack),
                               (k :> Head(stack)) @@ (Head(stack) :> k)
                                   @@ table)
    ELSE build_jump_table(operations, k + 1, stack, table)

jump_table(operations) ==
    build_jump_table(operations, 0, <<>>, [i \in {} |-> 0])

\* one step of the engine that resolves jumps by the table
execute_table(self) ==
    LET oper == self.operations[self.idx + 1]
        taken == \/ oper = "BracketLeft" /\ get_value(self.memory) = 0
                 \/ oper = "BracketRight" /\ get_value(self.memory) # 0
    IN  IF taken
        THEN Outcome(NoPanic,
                     Advance([self EXCEPT
                                  !.idx = jump_table(self.operations)[self.idx]]),
                     <<>>)
        ELSE IF oper \in {"BracketLeft", "BracketRight"}
        THEN Outcome(NoPanic, Advance(self), <<>>)
        ELSE execute(self, TRUE)

(***************************************************************************)
(* The texts the model runs.                                               *)
(***************************************************************************)
\* the characters programs are drawn from: the eight instructions, a
\* one-byte comment and a two-byte comment
ProgChars == {"+", "-", ">", "<", ".", ",", "[", "]", "c", E_ACUTE}
\* the characters the longer, bracket-heavy programs are drawn from
LoopChars == {"[", "]", "+", ">"}
\* the characters the programs that only move the pointer are drawn from
MoveChars == {"<", ">"}
\* the characters input texts are drawn from
InputChars == {"A", E_ACUTE}

SeqsUpTo(S, n) == UNION {[1..k -> S] : k \in 0..n}

\* n copies of the character c
Repeat(c, n) == [i \in 1..n |-> c]

\* `+` n times, then `[->+<]`
MoveProgram(n) == Repeat("+", n) \o <<"[", "-", ">", "+", "<", "]">>

ScenarioPrograms ==
    {Repeat("+", CELL_SIZE_LIMIT + 1), Repeat("-", CELL_SIZE_LIMIT + 1),
     <<",", ".", ",", ".", ",", ".">>,
     <<"+", "[", ">", "[", "]", "<", "]">>,
     <<"+", "[", ">", "[", "]", "+", "]", "+">>,
     <<"-", "[", "[", "-", "]", ">", "]">>,
     <<"+", "[", "c", ".", "]">>,
     <<",", "[", ".", "]", "+", "[", E_ACUTE, "]">>,
     <<"<", "+", ">", ">", "<", "<", "-">>}
    \cup {MoveProgram(n) : n \in 0..(MaxJumps + 1)}

Programs ==
    SeqsUpTo(ProgChars, MaxLen) \cup SeqsUpTo(LoopChars, MaxLen + 2)
        \cup SeqsUpTo(MoveChars, MaxLen + 2) \cup ScenarioPrograms

\* the characters the programs that are run on every input are drawn from
ReaderChars == {",", ".", "+", "[", "]"}

InputTexts == SeqsUpTo(InputChars, MaxInput)

\* texts around the program and the separator that trim and split must cope
\* with: white space at both ends and around the separator, a trailing
\* separator, a second separator, a final newline
Variants(p) ==
    {p \o <<"!">>, p \o <<NL>>, p \o <<"!", "A", NL>>, p \o <<"!", "A", "!">>,
     p \o <<"!", "!">>, <<" ", NL>> \o p \o <<" ", "!", " ", "A", " ">>}

\* `+++.!`: a program, the separator and an empty input
EmptyInputText == <<"+", "+", "+", ".", "!">>

Contents ==
    Programs
        \cup {EmptyInputText}
        \cup {p \o <<"!">> \o i :
                  p \in SeqsUpTo(ReaderChars, MaxLen) \cup ScenarioPrograms,
                  i \in InputTexts}
        \cup UNION {Variants(p) : p \in SeqsUpTo(ProgChars, MaxLen - 1)}

(***************************************************************************)
(* main.                                                                   *)
(***************************************************************************)
Init ==
    /\ contents \in Contents
    /\ parsed = <<>>
    /\ state = InnerState_new(<<>>, <<>>)
    /\ stdout = <<>>
    /\ status = "start"
    /\ panic = NoPanic
    /\ jumps = 0

\* a split that stops at the first separator, as splitn(2, "!") would: the
\* rest of the text, separators included, is the second segment
parse_splitn(text) ==
    LET t == trim(text)
        cut == sep_position(t, "!", 1)
    IN  IF cut > Len(t) THEN <<t, <<>>>>
        ELSE <<SubSeq(t, 1, cut - 1), SubSeq(t, cut + 1, Len(t))>>

\* text with only its leading white space removed, then parsed
parse_trim_start(text) ==
    LET segs == split(trim_start(text), "!") IN
    IF Len(segs) < 2 THEN Append(segs, <<>>) ELSE segs

\* `parsed` once the missing second segment has been pushed
parse(text) ==
    LET segs == split(trim(text), "!") IN
    IF Len(segs) < 2 THEN Append(segs, <<>>) ELSE segs

\* main, from the read of the file to the construction of `state`
Load ==
    /\ status = "start"
    /\ parsed' = parse(contents)
    /\ IF Len(parsed') > 2
       THEN /\ stdout' = stdout \o ONLY_ONE_MSG
            /\ status' = "exit1"
            /\ state' = state
       ELSE /\ stdout' = stdout
            /\ status' = "running"
            /\ state' = InnerState_new(parsed'[1], parsed'[2])
    /\ UNCHANGED <<contents, panic, jumps>>

\* the condition of the run loop
loop_condition(self, segs) == self.idx < str_len(segs[1])

\* a step that does not move the instruction index forward: a jump back
IsJumpBack(self, out) == out.panic.msg = "" /\ out.self.idx <= self.idx

\* one iteration of the run loop: a call of execute
Execute ==
    /\ status = "running"
    /\ loop_condition(state, parsed)
    /\ \E overflow_checks \in BOOLEAN :
         LET out == execute(state, overflow_checks) IN
         /\ IsJumpBack(state, out) => jumps < MaxJumps
         /\ jumps' = IF IsJumpBack(state, out) THEN jumps + 1 ELSE jumps
         /\ IF out.panic.msg # ""
            THEN /\ status' = "panicked"
                 /\ panic' = out.panic
                 /\ UNCHANGED <<state, stdout>>
            ELSE /\ state' = out.self
                 /\ stdout' = stdout \o out.out
                 /\ UNCHANGED <<status, panic>>
    /\ UNCHANGED <<contents, parsed>>

\* the exit of the run loop and the final println
Halt ==
    /\ status = "running"
    /\ ~loop_condition(state, parsed)
    /\ stdout' = Append(stdout, 10)
    /\ status' = "halted"
    /\ UNCHANGED <<contents, parsed, state, panic, jumps>>

Next == Load \/ Execute \/ Halt

Spec == Init /\ [][Next]_vars

(***************************************************************************)
(* Vocabulary of the properties.                                           *)
(***************************************************************************)
\* the run is inside the run loop, with the engine constructed
Running == status = "running"
\* the engine exists: the program was loaded
Loaded == status \in {"running", "halted", "panicked"}
\* the number of instructions of the parsed program
NumOps == Len(state.operations)
\* the instruction the next step fetches, when there is one
CurOp == IF state.idx < NumOps THEN state.operations[state.idx + 1] ELSE "none"
\* the value of the cell under the tape pointer
CurCell == cell_at(state.memory.bytearray, state.memory.idx)
\* this step is a call of execute that fetches operation op
StepOf(op) == Running /\ status' # "halted" /\ CurOp = op
\* the lines of the two bracket scans at which an index is computed or read
ScanLines == {134, 154, 157, 170}

\* the number of positions of S that hold operation op
Count(ops, S, op) == Cardinality({k \in S : ops[k] = op})
\* brackets of positions i..j (from 1) still open at j
Open(ops, i, j) ==
    Count(ops, i..j, "BracketLeft") - Count(ops, i..j, "BracketRight")
\* every LoopEnd closes an earlier LoopStart and every LoopStart is closed
Balanced(ops) ==
    /\ \A k \in 1..Len(ops) : Open(ops, 1, k) >= 0
    /\ Open(ops, 1, Len(ops)) = 0
\* the positions (from 1) of the LoopEnds that close the LoopStart at i
\* with the pairs in between closed; the partner is the first of them
Closers(ops, i) ==
    {j \in (i + 1)..Len(ops) : ops[j] = "BracketRight" /\ Open(ops, i, j) = 0}
\* the positions (from 1) of the LoopStarts the LoopEnd at j closes; the
\* partner is the last of them
Openers(ops, j) ==
    {i \in 1..(j - 1) : ops[i] = "BracketLeft" /\ Open(ops, i, j) = 0}
Min(S) == CHOOSE x \in S : \A y \in S : x <= y
Max(S) == CHOOSE x \in S : \A y \in S : x >= y

(***************************************************************************)
(* C1.  A taken jump of an unmatched bracket ends the run in the reported  *)
(* failure UnbalancedBracket: no bracket scan reads an instruction index   *)
(* outside the program or takes the index below 0, so no run ends in an    *)
(* index or arithmetic fault raised inside get_next_rbrack or              *)
(* get_prev_lbrack.                                                        *)
(***************************************************************************)
C1_UnbalancedBracketReported ==
    status = "panicked" => panic.line \notin ScanLines

(***************************************************************************)
(* C2.  A program whose brackets are balanced, with any comment characters *)
(* and any input, reaches no failure state: every fetch and every scan     *)
(* read is inside the program and the run can only end Halted.             *)
(***************************************************************************)
C2_BalancedNeverFails ==
    (Loaded /\ Balanced(state.operations)) => status # "panicked"

(***************************************************************************)
(* C3.  The run loop performs a step exactly while the instruction pointer *)
(* is below the number of instructions (one per source character), also    *)
(* when the source holds characters of more than one byte.                 *)
(***************************************************************************)
C3_StepsWhileBelowNumOps ==
    Running => (loop_condition(state, parsed) <=> state.idx < NumOps)

(***************************************************************************)
(* C4.  The tape pointer is in [0, ARRAY_SIZE_LIMIT) in every state;       *)
(* MoveLeft at pointer 0 wraps to ARRAY_SIZE_LIMIT - 1, MoveRight at       *)
(* ARRAY_SIZE_LIMIT - 1 wraps to 0, and a move never fails.                *)
(***************************************************************************)
TapePointerInRange == state.memory.idx \in 0..(ARRAY_SIZE_LIMIT - 1)

MoveLeftWraps ==
    StepOf("MoveLeft") =>
        /\ status' = "running"
        /\ state'.memory.idx = IF state.memory.idx = 0
                               THEN ARRAY_SIZE_LIMIT - 1
                               ELSE state.memory.idx - 1

MoveRightWraps ==
    StepOf("MoveRight") =>
        /\ status' = "running"
        /\ state'.memory.idx = IF state.memory.idx = ARRAY_SIZE_LIMIT - 1
                               THEN 0
                               ELSE state.memory.idx + 1

C4_PointerWraps ==
    /\ []TapePointerInRange
    /\ [][MoveLeftWraps /\ MoveRightWraps]_vars

\* `<>` has run: the pointer went from 0 to the last cell and back to 0
C4_Witness ==
    /\ Running
    /\ state.operations = <<"MoveLeft", "MoveRight">>
    /\ state.idx = 2
    /\ state.memory.idx = 0

(***************************************************************************)
(* C5.  For every cell value v in [0, CELL_SIZE_LIMIT], IncrementCell then *)
(* DecrementCell leaves the cell equal to v, and so does DecrementCell     *)
(* then IncrementCell: after a step of one, the other restores the memory  *)
(* the step started from.  The runs of `+` and of `-` CELL_SIZE_LIMIT + 1  *)
(* times take a step of each from every value.                             *)
(***************************************************************************)
C5_IncrementDecrementInverse ==
    [][/\ StepOf("Add") => decrement(state'.memory) = state.memory
       /\ StepOf("Subtract") => increment(state'.memory) = state.memory]_vars

\* the run of `+` CELL_SIZE_LIMIT + 1 times is over: an Add was taken from
\* every value, the last one from CELL_SIZE_LIMIT to 0
C5_Witness ==
    /\ Running
    /\ state.operations = [i \in 1..(CELL_SIZE_LIMIT + 1) |-> "Add"]
    /\ state.idx = CELL_SIZE_LIMIT + 1
    /\ CurCell = 0

(***************************************************************************)
(* C6.  ReadInput with input left writes the next input byte to the        *)
(* current cell and advances the cursor by 1; with the input exhausted it  *)
(* writes 0, is not an error, and still advances the cursor by 1.  So      *)
(* `,.,.,.` on the input "A" prints 65, 0, 0 and halts (the final newline  *)
(* of main follows).                                                       *)
(***************************************************************************)
ReadInputEffect ==
    StepOf("Input") =>
        /\ status' = "running"
        /\ state'.input_idx = state.input_idx + 1
        /\ state'.input_str = as_bytes(parsed[2])
        /\ state'.memory.idx = state.memory.idx
        /\ cell_at(state'.memory.bytearray, state.memory.idx) =
               IF state.input_idx < Len(as_bytes(parsed[2]))
               THEN as_bytes(parsed[2])[state.input_idx + 1]
               ELSE 0

ReadThriceProgram == <<",", ".", ",", ".", ",", ".">>

ReadThriceOutput ==
    (contents = ReadThriceProgram \o <<"!", "A">> /\ Loaded) =>
        /\ status # "panicked"
        /\ status = "halted" => stdout = <<65, 0, 0, 10>>

C6_ReadInput == [][ReadInputEffect]_vars /\ []ReadThriceOutput

\* `,.,.,.` on "A" has halted, the cursor two past the end of the input
C6_Witness ==
    /\ contents = ReadThriceProgram \o <<"!", "A">>
    /\ status = "halted"
    /\ state.input_idx = 3
    /\ stdout = <<65, 0, 0, 10>>

(***************************************************************************)
(* C7.  Every WriteOutput step appends exactly one byte to the output,     *)
(* the current cell's value, for every cell value in [0, 255]; no other    *)
(* step of the engine writes, so the output is append-only and as long as  *)
(* the number of WriteOutput steps taken.                                  *)
(***************************************************************************)
C7_OutputOneByte ==
    [][/\ StepOf("Output") => stdout' = Append(stdout, CurCell)
       /\ (Running /\ status' # "halted" /\ CurOp # "Output") =>
              stdout' = stdout]_vars

(***************************************************************************)
(* C8.  In a balanced program a LoopStart executed on a zero cell sets the *)
(* instruction pointer just after its matching LoopEnd and a LoopEnd       *)
(* executed on a nonzero cell sets it just after its matching LoopStart,   *)
(* the match being the partner that respects nesting; a LoopStart on a     *)
(* nonzero cell and a LoopEnd on a zero cell fall through.                 *)
(* Positions count from 1, indices from 0: the index just after position j *)
(* is j.                                                                   *)
(***************************************************************************)
LoopStartJump ==
    (StepOf("BracketLeft") /\ Balanced(state.operations)) =>
        /\ status' = "running"
        /\ state'.idx = IF CurCell = 0
                        THEN Min(Closers(state.operations, state.idx + 1))
                        ELSE state.idx + 1

LoopEndJump ==
    (StepOf("BracketRight") /\ Balanced(state.operations)) =>
        /\ status' = "running"
        /\ state'.idx = IF CurCell # 0
                        THEN Max(Openers(state.operations, state.idx + 1))
                        ELSE state.idx + 1

C8_JumpsToMatch == [][LoopStartJump /\ LoopEndJump]_vars

\* in `+[>[]<]` the outer LoopEnd has jumped back over the inner pair, after
\* the inner LoopStart had skipped its pair on the zero cell 1
C8_Witness ==
    /\ Running
    /\ state.operations = <<"Add", "BracketLeft", "MoveRight", "BracketLeft",
                            "BracketRight", "MoveLeft", "BracketRight">>
    /\ jumps = 1
    /\ state.idx = 2

(***************************************************************************)
(* C9.  A loop whose body never changes whether the current cell is zero   *)
(* (a body of Comment and WriteOutput instructions changes neither the     *)
(* tape nor the pointer) executes its body exactly once if the cell is     *)
(* nonzero when the LoopStart is reached: its LoopEnd then leaves the      *)
(* loop; and zero times if the cell is zero: the LoopStart goes just past  *)
(* the LoopEnd.                                                            *)
(***************************************************************************)
\* positions i < j (from 1) of a LoopStart and a LoopEnd around such a body,
\* which is not empty
InertLoop(ops, i, j) ==
    /\ i + 1 < j
    /\ \A k \in (i + 1)..(j - 1) : ops[k] \in {"Comment", "Output"}

InertLoops ==
    {ij \in {i \in 1..NumOps : state.operations[i] = "BracketLeft"}
              \X {j \in 1..NumOps : state.operations[j] = "BracketRight"} :
        InertLoop(state.operations, ij[1], ij[2])}

\* the step is a call of execute at position pos
StepAt(pos) == Running /\ status' # "halted" /\ state.idx + 1 = pos

\* the LoopStart at i, on a zero cell, goes just past j and nothing ran
SkippedOnZero(i, j) ==
    (StepAt(i) /\ CurCell = 0) =>
        /\ status' = "running"
        /\ state'.idx = j
        /\ state'.memory = state.memory
        /\ stdout' = stdout

C9_BodyRunsOnce ==
    [][\A ij \in InertLoops :
          /\ SkippedOnZero(ij[1], ij[2])
          /\ StepAt(ij[2]) => state'.idx = ij[2]]_vars

(***************************************************************************)
(* C9, amended.  Such a loop executes its body zero times if the cell is   *)
(* zero when the LoopStart is reached.  If the cell is nonzero the loop is *)
(* never left: the cell stays nonzero, every step stays inside the loop,   *)
(* and every LoopEnd jumps back to the first instruction of the body, so   *)
(* the body is executed again and again.                                   *)
(***************************************************************************)
NeverLeft(i, j) ==
    (\E pos \in i..j : StepAt(pos) /\ ~(pos = i /\ CurCell = 0)) =>
        /\ status' = "running"
        /\ CurCell # 0
        /\ state'.memory = state.memory
        /\ state'.idx + 1 \in (i + 1)..j
        /\ StepAt(j) => state'.idx = i

C9_BodyRunsForever ==
    [][\A ij \in InertLoops :
          SkippedOnZero(ij[1], ij[2]) /\ NeverLeft(ij[1], ij[2])]_vars

\* `+[c.]` is in its second pass: the LoopEnd has jumped back once and the
\* body has printed twice
C9_Witness ==
    /\ Running
    /\ state.operations =
           <<"Add", "BracketLeft", "Comment", "Output", "BracketRight">>
    /\ jumps = 1
    /\ state.idx = 4
    /\ stdout = <<1, 1>>

(***************************************************************************)
(* C10.  For n from 0 to MaxJumps + 1, `+` n times followed by `[->+<]`    *)
(* on the all-zero tape halts with cell 0 = 0, cell 1 = n and the pointer  *)
(* at cell 0, the body having run exactly n times: the LoopEnd jumped back *)
(* n - 1 times.  `++[->+<]` is the case n = 2.  The run never fails and    *)
(* never stops before it halts.                                            *)
(***************************************************************************)
MoveRuns == 0..(MaxJumps + 1)

C10_MoveLoop ==
    \A n \in MoveRuns :
        (contents = MoveProgram(n) /\ Loaded) =>
            /\ status # "panicked"
            /\ Running => ENABLED (Execute \/ Halt)
            /\ status = "halted" =>
                  /\ state.memory.idx = 0
                  /\ cell_at(state.memory.bytearray, 0) = 0
                  /\ cell_at(state.memory.bytearray, 1) = n
                  /\ DOMAIN state.memory.bytearray \subseteq {1}
                  /\ jumps = IF n = 0 THEN 0 ELSE n - 1

\* `++[->+<]` has halted with 2 in cell 1
C10_Witness ==
    /\ contents = MoveProgram(2)
    /\ status = "halted"
    /\ cell_at(state.memory.bytearray, 1) = 2
    /\ jumps = 1

(***************************************************************************)
(* C11.  After a sequence of MoveLeft and MoveRight instructions only, r   *)
(* MoveRights and l MoveLefts, the tape pointer is (p0 + r - l) mod        *)
(* ARRAY_SIZE_LIMIT, whatever the order of the moves and however often the *)
(* pointer wrapped.  A run starts at p0 = 0; the equation at every prefix   *)
(* of the run gives it for the moves that follow any pointer the run       *)
(* passes through.                                                         *)
(***************************************************************************)
\* the first k instructions are moves
MovesOnly(ops, k) ==
    \A i \in 1..k : ops[i] \in {"MoveLeft", "MoveRight"}

C11_NetDisplacement ==
    (Running /\ state.idx <= NumOps /\ MovesOnly(state.operations, state.idx))
        => state.memory.idx =
               (Count(state.operations, 1..state.idx, "MoveRight")
                    - Count(state.operations, 1..state.idx, "MoveLeft"))
                   % ARRAY_SIZE_LIMIT

\* `<<>>>` has run: the pointer wrapped down through 0, came back up through
\* ARRAY_SIZE_LIMIT - 1 and stands at 1
C11_Witness ==
    /\ Running
    /\ state.operations =
           <<"MoveLeft", "MoveLeft", "MoveRight", "MoveRight", "MoveRight">>
    /\ state.idx = 5
    /\ state.memory.idx = 1

(***************************************************************************)
(* C12.  A text with two or more `!` separators ends in the configuration  *)
(* error before the engine takes any step: the engine is never             *)
(* constructed, no instruction runs, nothing is printed but the error      *)
(* message, and the process exits with status 1.                           *)
(***************************************************************************)
\* the number of separators in the file text
SepCount == Cardinality({i \in 1..Len(contents) : contents[i] = "!"})

C12_TwoSeparatorsRejected ==
    SepCount >= 2 =>
        /\ status \in {"start", "exit1"}
        /\ status = "start" => ENABLED Load
        /\ state = InnerState_new(<<>>, <<>>)
        /\ jumps = 0
        /\ stdout = IF status = "exit1" THEN ONLY_ONE_MSG ELSE <<>>

\* `+.!A!` was rejected
C12_Witness ==
    /\ contents = <<"+", ".", "!", "A", "!">>
    /\ status = "exit1"
    /\ stdout = ONLY_ONE_MSG

(***************************************************************************)
(* C13.  With at most one `!`, the text is accepted: without its leading   *)
(* and trailing white space it is the program, the separator and the       *)
(* input (one separator), or the program alone with an empty input (no     *)
(* separator), and the engine is built from that program and that input.   *)
(* `+++.!` gives the program `+++.` and the empty input.                   *)
(***************************************************************************)
White == {" ", NL}

\* t is s without the white space at its two ends
IsTrimOf(t, s) ==
    \E a \in 0..Len(s) :
        /\ \A i \in 1..a : s[i] \in White
        /\ \E b \in 0..(Len(s) - a) :
              /\ \A i \in (Len(s) - b + 1)..Len(s) : s[i] \in White
              /\ t = SubSeq(s, a + 1, Len(s) - b)
              /\ t # <<>> => (t[1] \notin White /\ t[Len(t)] \notin White)

C13_SplitAtSeparator ==
    /\ (status = "start" /\ SepCount <= 1) => ENABLED Load
    /\ (status # "start" /\ SepCount <= 1) =>
          /\ status # "exit1"
          /\ Len(parsed) = 2
          /\ \A k \in 1..2 : \A i \in 1..Len(parsed[k]) : parsed[k][i] # "!"
          /\ IsTrimOf(IF SepCount = 1
                      THEN parsed[1] \o <<"!">> \o parsed[2]
                      ELSE parsed[1],
                      contents)
          /\ SepCount = 0 => parsed[2] = <<>>
          /\ Len(state.operations) = Len(parsed[1])
          /\ Len(state.input_str) = str_len(parsed[2])
          /\ contents = EmptyInputText =>
                parsed = <<<<"+", "+", "+", ".">>, <<>>>>

\* `+++.!` was split and its four instructions have run
C13_Witness ==
    /\ contents = EmptyInputText
    /\ status = "halted"
    /\ parsed = <<<<"+", "+", "+", ".">>, <<>>>>
    /\ state.input_str = <<>>
    /\ stdout = <<3, 10>>

(***************************************************************************)
(* C14.  For every cell value v in [0, 255], IncrementCell sets the        *)
(* current cell to (v + 1) mod 256 (255 wraps to 0, 254 does not) and      *)
(* DecrementCell sets it to (v - 1) mod 256 (0 wraps to 255); the pointer  *)
(* and the other cells are left alone.                                     *)
(***************************************************************************)
\* this step leaves the pointer and every cell but the current one alone
\* and sets the current cell to v
CellBecomes(v) ==
    /\ status' = "running"
    /\ state'.memory.idx = state.memory.idx
    /\ cell_at(state'.memory.bytearray, state.memory.idx) = v
    /\ \A i \in (DOMAIN state.memory.bytearray
                     \cup DOMAIN state'.memory.bytearray) \ {state.memory.idx} :
           cell_at(state'.memory.bytearray, i)
               = cell_at(state.memory.bytearray, i)

C14_CellArithmetic ==
    [][/\ StepOf("Add") =>
              CellBecomes((CurCell + 1) % (CELL_SIZE_LIMIT + 1))
       /\ StepOf("Subtract") =>
              CellBecomes((CurCell - 1) % (CELL_SIZE_LIMIT + 1))]_vars

\* the run of `-` CELL_SIZE_LIMIT + 1 times is over: a Subtract was taken
\* from every value, the first one from 0 to CELL_SIZE_LIMIT
C14_Witness ==
    /\ Running
    /\ state.operations = [i \in 1..(CELL_SIZE_LIMIT + 1) |-> "Subtract"]
    /\ state.idx = CELL_SIZE_LIMIT + 1
    /\ CurCell = 0

(***************************************************************************)
(* C15.  In every reachable state every tape cell holds a value in         *)
(* [0, CELL_SIZE_LIMIT], after any increments, decrements and reads of     *)
(* input bytes or of the zero of an exhausted input.                       *)
(***************************************************************************)
C15_CellsInRange ==
    \A i \in DOMAIN state.memory.bytearray :
        state.memory.bytearray[i] \in 0..CELL_SIZE_LIMIT

\* `-,` has run on an empty input: the cell went to CELL_SIZE_LIMIT and the
\* read of the exhausted input set it to 0
C15_Witness ==
    /\ Running
    /\ state.operations = <<"Subtract", "Input">>
    /\ state.input_str = <<>>
    /\ state.idx = 2
    /\ CurCell = 0

(***************************************************************************)
(* C16.  Every instruction step except a taken LoopStart or LoopEnd jump   *)
(* advances the instruction pointer by exactly 1; a Comment step changes   *)
(* nothing else (tape, tape pointer, input and its cursor, output); only a *)
(* ReadInput step changes the input cursor, which never decreases.         *)
(***************************************************************************)
\* this step is a call of execute that fetches an instruction
InstructionStep == Running /\ status' # "halted" /\ CurOp # "none"
\* the instruction fetched is a bracket whose jump is taken
JumpTaken ==
    \/ CurOp = "BracketLeft" /\ CurCell = 0
    \/ CurOp = "BracketRight" /\ CurCell # 0

C16_StepFrame ==
    [][/\ (InstructionStep /\ ~JumpTaken) =>
              (status' = "running" /\ state'.idx = state.idx + 1)
       /\ StepOf("Comment") =>
              /\ state' = [state EXCEPT !.idx = state.idx + 1]
              /\ stdout' = stdout
       /\ (InstructionStep /\ CurOp # "Input") =>
              state'.input_idx = state.input_idx
       /\ state'.input_idx >= state.input_idx]_vars

\* `c,` has run: the Comment step left the cursor at 0, the ReadInput step
\* moved it to 1
C16_Witness ==
    /\ Running
    /\ state.operations = <<"Comment", "Input">>
    /\ state.idx = 2
    /\ state.input_idx = 1

(***************************************************************************)
(* C17.  On every balanced program and every input the engine that scans   *)
(* for the partner bracket at each jump and the engine that reads a jump   *)
(* table built with a nesting stack step through the same states: from     *)
(* every state the run reaches, the step taken leads to the instruction    *)
(* pointer, tape, tape pointer, input cursor and output the table engine   *)
(* computes from that state.  The two engines differ in the bracket        *)
(* instructions only.                                                      *)
(***************************************************************************)
SameAsTableEngine ==
    /\ status' = "running"
    /\ state' = execute_table(state).self
    /\ stdout' = stdout \o execute_table(state).out

C17_TableEngineEquivalent ==
    [][/\ (InstructionStep /\ CurOp \notin {"BracketLeft", "BracketRight"})
              => SameAsTableEngine
       /\ (InstructionStep /\ CurOp \in {"BracketLeft", "BracketRight"}
               /\ Balanced(state.operations))
              => SameAsTableEngine]_vars

\* in `+[>[]+]+` the outer LoopEnd has jumped back over the inner pair
C17_Witness ==
    /\ Running
    /\ state.operations = <<"Add", "BracketLeft", "MoveRight", "BracketLeft",
                            "BracketRight", "Add", "BracketRight", "Add">>
    /\ jumps = 1
    /\ state.idx = 2
    /\ state.memory.idx = 1
    /\ CurCell = 1

(***************************************************************************)
(* The run of the nested-loop programs, every backward jump allowed: the   *)
(* run loop of main never pauses, so a step that can be taken is taken.    *)
(***************************************************************************)
\* `++[[-]-]`
NestedProgram == <<"+", "+", "[", "[", "-", "]", "-", "]">>

\* `++[[-]-]`, the same loops entered on a zero cell, and the loops without
\* the outer decrement
NestedTexts ==
    {NestedProgram,
     <<"[", "[", "-", "]", "-", "]">>,
     <<"+", "+", "[", "[", "-", "]", "]">>}

InitNested ==
    /\ contents \in NestedTexts
    /\ parsed = <<>>
    /\ state = InnerState_new(<<>>, <<>>)
    /\ stdout = <<>>
    /\ status = "start"
    /\ panic = NoPanic
    /\ jumps = 0

\* one iteration of the run loop, backward jumps not counted
ExecuteAny ==
    /\ status = "running"
    /\ loop_condition(state, parsed)
    /\ \E overflow_checks \in BOOLEAN :
         LET out == execute(state, overflow_checks) IN
         IF out.panic.msg # ""
         THEN /\ status' = "panicked"
              /\ panic' = out.panic
              /\ UNCHANGED <<state, stdout>>
         ELSE /\ state' = out.self
              /\ stdout' = stdout \o out.out
              /\ UNCHANGED <<status, panic>>
    /\ UNCHANGED <<contents, parsed, jumps>>

NextNested == Load \/ ExecuteAny \/ Halt

SpecNested == InitNested /\ [][NextNested]_vars /\ WF_vars(NextNested)

(***************************************************************************)
(* C18.  `++[[-]-]` on the all-zero tape, that is `[[-]-]` started with    *)
(* the current cell equal to 2, terminates: the run eventually reaches     *)
(* Halted.                                                                 *)
(***************************************************************************)
C18_NestedTerminates == (contents = NestedProgram) ~> (status = "halted")

(***************************************************************************)
(* C18, amended.  `++[[-]-]` on the all-zero tape does not terminate: the  *)
(* run never halts, never fails and never stops, because each time the     *)
(* outer LoopEnd is reached the inner loop has zeroed the cell and the     *)
(* decrement after it has wrapped the cell to CELL_SIZE_LIMIT, so the      *)
(* outer LoopEnd jumps back.                                               *)
(***************************************************************************)
C18_NestedRunsForever ==
    contents = NestedProgram =>
        /\ status \in {"start", "running"}
        /\ ENABLED NextNested
        /\ Running =>
              /\ state.idx < NumOps
              /\ state.idx = NumOps - 1 => CurCell = CELL_SIZE_LIMIT

\* the outer LoopEnd has jumped back: the run is at the inner LoopStart with
\* the cell wrapped to CELL_SIZE_LIMIT
C18_Witness ==
    /\ contents = NestedProgram
    /\ Running
    /\ state.idx = 3
    /\ CurCell = CELL_SIZE_LIMIT

(***************************************************************************)
(* C19.  An unmatched bracket makes the run fail only when its jump is     *)
(* taken.  A LoopStart with no matching LoopEnd reached on a nonzero cell  *)
(* and a LoopEnd with no matching LoopStart reached on a zero cell fall    *)
(* through, nothing else changing; a bracket scan fails only in a step     *)
(* whose jump is taken; `+[` and `]` are loaded, run and halt, balance     *)
(* not being validated at load time.                                       *)
(***************************************************************************)
\* the instruction fetched is a bracket without a partner
UnmatchedBracket ==
    \/ /\ CurOp = "BracketLeft"
       /\ Closers(state.operations, state.idx + 1) = {}
    \/ /\ CurOp = "BracketRight"
       /\ Openers(state.operations, state.idx + 1) = {}

UnmatchedFallsThrough ==
    (InstructionStep /\ UnmatchedBracket /\ ~JumpTaken) =>
        /\ status' = "running"
        /\ state' = [state EXCEPT !.idx = state.idx + 1]
        /\ stdout' = stdout

ScanFailsOnlyInJump ==
    (status' = "panicked" /\ panic'.line \in ScanLines) =>
        (InstructionStep /\ UnmatchedBracket /\ JumpTaken)

UnmatchedTexts == {<<"+", "[">>, <<"]">>}

UnmatchedRunsHalt ==
    contents \in UnmatchedTexts =>
        /\ status \notin {"exit1", "panicked"}
        /\ status # "halted" => ENABLED Next
        /\ Loaded => ~Balanced(state.operations)

C19_UnmatchedFailsOnlyOnJump ==
    /\ []UnmatchedRunsHalt
    /\ [][UnmatchedFallsThrough /\ ScanFailsOnlyInJump]_vars

\* `+[` has halted: the LoopStart fell through on the cell holding 1
C19_Witness ==
    /\ contents = <<"+", "[">>
    /\ status = "halted"
    /\ state.idx = 2
    /\ CurCell = 1

=============================================================================
